---- MODULE Spec2Model ----
(***************************************************************************)
(* Model of deploy_vps.py: a linear script that opens one SSH session,     *)
(* runs "npm run build" streaming its output, restarts pm2 when the build  *)
(* exit status is 0, prints "pm2 status", closes the session and prints    *)
(* "Done.".  The script has no try/except/finally: any exception raised by *)
(* connect(), exec_command() or a read() is unhandled and terminates the   *)
(* interpreter with a traceback (process exit status 1).                   *)
(*                                                                         *)
(* The remote side (what bytes a command produces, how they are cut into   *)
(* chunks, when the transport stalls or drops, which exit status is sent)  *)
(* is the environment and is nondeterministic.                             *)
(***************************************************************************)
EXTENDS Integers, Sequences, FiniteSets, TLC

VARIABLES
    pc,          \* position of the script (the statement about to run)
    client,      \* the paramiko.SSHClient: "new", "open" or "closed"
    opened,      \* number of sessions opened by client.connect()
    closeCalls,  \* number of calls of client.close()
    issued,      \* commands passed to client.exec_command(), in order
    pending,     \* bytes the running remote command has still to deliver
    received,    \* per command: the chunks the channel has delivered so far
    eof,         \* commands whose output stream has closed
    chanExit,    \* per command: <<v>> once the remote reported exit status v
    retrieved,   \* commands whose exit status the script has read
    exit_code,   \* the script's variable exit_code: <<>> unbound, <<v>> bound
    console,     \* what has been written to sys.stdout, in order
    error,       \* kind of the unhandled exception, "" when none
    failedStep,  \* the command during which the exception was raised
    procExit     \* process exit status: <<>> while running, <<n>> at the end

vars == <<pc, client, opened, closeCalls, issued, pending, received, eof,
          chanExit, retrieved, exit_code, console, error, failedStep, procExit>>

----------------------------------------------------------------------------
(* Bounds of the model and constants of the program *)

\* longest output (in bytes) of the build command
MaxStreamLen == 2

\* largest exit status a remote command reports (exit statuses are 0..255)
MaxStatus == 255

\* largest exit status of the restart command that is enumerated
MaxRestartStatus == 1

\* stdout.read(4096): a read returns at most this many bytes
ReadSize == 4096

\* U+FFFD, what errors='replace' substitutes for undecodable bytes
Replacement == 65533

\* Bytes the remote commands draw their output from: 'A' (one-byte char),
\* 0xC3 0xA9 (a two-byte char), and 0xA9 alone (a stray continuation byte).
ByteAlphabet == {65, 195, 169}

\* Outputs of the two short commands (pm2 restart, pm2 status): nothing,
\* or one byte (one chunk)
ShortOutputs == {<<>>, <<65>>}

Commands == {"build", "restart", "status"}

Min(a, b) == IF a < b THEN a ELSE b

BytesUpTo(n) == UNION {[1..k -> ByteAlphabet] : k \in 0..n}

----------------------------------------------------------------------------
(* bytes.decode('utf-8', errors='replace') as CPython computes it: a       *)
(* well-formed sequence gives its code point; an invalid lead byte, or a   *)
(* lead byte with the longest valid run of trail bytes that follows it     *)
(* (a truncated or interrupted sequence), gives one U+FFFD.                *)

\* number of continuation bytes a lead byte announces; -1 for a byte that
\* cannot start a character (0x80..0xC1, 0xF5..0xFF)
ContNeeded(b) ==
    IF b < 128 THEN 0
    ELSE IF b >= 194 /\ b <= 223 THEN 1
    ELSE IF b >= 224 /\ b <= 239 THEN 2
    ELSE IF b >= 240 /\ b <= 244 THEN 3
    ELSE 0 - 1

\* range allowed for the first continuation byte after lead byte b
SecondLo(b) == IF b = 224 THEN 160 ELSE IF b = 240 THEN 144 ELSE 128
SecondHi(b) == IF b = 237 THEN 159 ELSE IF b = 244 THEN 143 ELSE 191

\* is bs[i+k] an acceptable k-th continuation byte of the lead byte bs[i]
TrailOk(bs, i, k) ==
    /\ i + k <= Len(bs)
    /\ IF k = 1
       THEN bs[i + 1] >= SecondLo(bs[i]) /\ bs[i + 1] <= SecondHi(bs[i])
       ELSE bs[i + k] >= 128 /\ bs[i + k] <= 191

\* how many of the announced continuation bytes are present and valid
RECURSIVE TrailRun(_, _, _)
TrailRun(bs, i, k) ==
    IF k < ContNeeded(bs[i]) /\ TrailOk(bs, i, k + 1)
    THEN TrailRun(bs, i, k + 1)
    ELSE k

CodePoint(bs, i) ==
    LET n == ContNeeded(bs[i])
    IN  IF n = 0 THEN bs[i]
        ELSE IF n = 1 THEN (bs[i] - 192) * 64 + (bs[i + 1] - 128)
        ELSE IF n = 2 THEN (bs[i] - 224) * 4096 + (bs[i + 1] - 128) * 64
                            + (bs[i + 2] - 128)
        ELSE (bs[i] - 240) * 262144 + (bs[i + 1] - 128) * 4096
             + (bs[i + 2] - 128) * 64 + (bs[i + 3] - 128)

RECURSIVE DecodeFrom(_, _)
DecodeFrom(bs, i) ==
    IF i > Len(bs) THEN <<>>
    ELSE LET n == ContNeeded(bs[i])
             m == IF n < 0 THEN 0 ELSE TrailRun(bs, i, 0)
         IN  IF n >= 0 /\ m = n
             THEN <<CodePoint(bs, i)>> \o DecodeFrom(bs, i + n + 1)
             ELSE <<Replacement>> \o DecodeFrom(bs, i + m + 1)

Utf8Decode(bs) == DecodeFrom(bs, 1)

----------------------------------------------------------------------------
(* The console: sys.stdout, a sequence of writes.  A "line" is a print()   *)
(* of fixed text (cps holds the digits of the number it formats, if any);  *)
(* a "data" write is decoded remote output of the command named in text.   *)

Line(t) == [kind |-> "line", text |-> t, cps |-> <<>>]
NumLine(t, digits) == [kind |-> "line", text |-> t, cps |-> digits]
Data(c, cps) == [kind |-> "data", text |-> c, cps |-> cps]

\* str(n) inside an f-string: the decimal digits of n (code points '0'..'9')
RECURSIVE FormatIntLow(_)
FormatIntLow(n) ==
    IF n < 10 THEN <<48 + n>>
    ELSE FormatIntLow((n \div 10) % 10) \o <<48 + (n % 10)>>

RECURSIVE FormatInt(_)
FormatInt(n) ==
    IF n < 10 THEN <<48 + n>>
    ELSE FormatInt(n \div 10) \o <<48 + (n % 10)>>

RECURSIVE Flatten(_)
Flatten(chunks) ==
    IF chunks = <<>> THEN <<>>
    ELSE Head(chunks) \o Flatten(Tail(chunks))

\* sys.stdout.write(chunk.decode('utf-8', errors='replace')); flush()
NoWriteChunk(con, chunk) == con
WriteChunk(con, chunk) == Append(con, Data("build", Utf8Decode(chunk)))

\* print(out.read().decode('utf-8', errors='replace')): the whole output of
\* command c decoded at once, plus print's newline
PrintOutput(con, c, bytes) == Append(con, Data(c, Utf8Decode(bytes) \o <<10>>))

\* if exit_code == 0:
GateOpenLax(code) == code <= 1
GateOpen(code) == code = 0

----------------------------------------------------------------------------
Init ==
    /\ pc = "connect"
    /\ client = "new"
    /\ opened = 0
    /\ closeCalls = 0
    /\ issued = <<>>
    /\ pending = <<>>
    /\ received = [c \in Commands |-> <<>>]
    /\ eof = {}
    /\ chanExit = [c \in Commands |-> <<>>]
    /\ retrieved = {}
    /\ exit_code = <<>>
    /\ console = <<>>
    /\ error = ""
    /\ failedStep = ""
    /\ procExit = <<>>

\* An exception nobody catches: the traceback is printed and the interpreter
\* exits with status 1.  Nothing after the raising statement runs.
FatalIgnored(c, kind) ==
    /\ error' = kind
    /\ failedStep' = c
    /\ UNCHANGED <<pc, procExit>>
Fatal(c, kind) ==
    /\ pc' = "failed"
    /\ error' = kind
    /\ failedStep' = c
    /\ procExit' = <<1>>

\* where the script goes after client.connect(...) returned or raised
AfterConnectLax(ok) == "build_exec"
AfterConnect(ok) == IF ok THEN "build_exec" ELSE "failed"

\* lines 12-14: print('Connecting to VPS...'); client.connect(...);
\* print('Connected.\n')
Connect ==
    /\ pc = "connect"
    /\ \E ok \in BOOLEAN :
        /\ pc' = AfterConnect(ok)
        /\ IF ok
           THEN /\ client' = "open"
                /\ opened' = opened + 1
                /\ console' = console \o <<Line("Connecting to VPS..."),
                                           Line("Connected.")>>
                /\ UNCHANGED <<error, failedStep, procExit>>
           ELSE /\ console' = Append(console, Line("Connecting to VPS..."))
                /\ error' = "ConnectionError"
                /\ failedStep' = "connect"
                /\ procExit' = <<1>>
                /\ UNCHANGED <<client, opened>>
    /\ UNCHANGED <<closeCalls, issued, pending, received, eof, chanExit,
                   retrieved, exit_code>>

\* client.exec_command(c, timeout=...): the call is recorded in `issued`;
\* either a channel is opened on which the remote side will produce one of
\* `outputs` and the script moves on to `next`, or the call raises
\* (SSHException: the transport is gone).
ExecCommand(c, outputs, next) ==
    /\ issued' = Append(issued, c)
    /\ \/ /\ \E out \in outputs : pending' = out
          /\ pc' = next
          /\ UNCHANGED <<error, failedStep, procExit>>
       \/ /\ Fatal(c, "ConnectionLost")
          /\ UNCHANGED pending

\* lines 16-17: print('=== STEP 1 ...'); client.exec_command('... npm run build')
BuildExec ==
    /\ pc = "build_exec"
    /\ ExecCommand("build", BytesUpTo(MaxStreamLen), "build_read")
    /\ console' = Append(console, Line("=== STEP 1: npm run build ==="))
    /\ UNCHANGED <<client, opened, closeCalls, received, eof, chanExit,
                   retrieved, exit_code>>

\* lines 18-23: one iteration of the loop `chunk = stdout.read(4096)`
BuildRead ==
    /\ pc = "build_read"
    /\ \/ \* a non-empty chunk: decode it, write it, flush, loop
          /\ pending # <<>>
          /\ \E n \in 1..Min(ReadSize, Len(pending)) :
                LET chunk == SubSeq(pending, 1, n)
                IN  /\ received' = [received EXCEPT
                                      !["build"] = Append(@, chunk)]
                    /\ pending' = SubSeq(pending, n + 1, Len(pending))
                    /\ console' = WriteChunk(console, chunk)
          /\ UNCHANGED <<pc, eof, chanExit, error, failedStep, procExit,
                         issued>>
       \/ \* the stream has closed: read() returns b'' and the loop breaks
          /\ pending = <<>>
          /\ eof' = eof \cup {"build"}
          /\ \E v \in 0..MaxStatus :
                chanExit' = [chanExit EXCEPT !["build"] = <<v>>]
          /\ pc' = "build_status"
          /\ UNCHANGED <<pending, received, console, error, failedStep,
                         procExit, issued>>
       \/ \* no data and no closure within the timeout: socket.timeout
          /\ Fatal("build", "CommandTimeout")
          /\ UNCHANGED <<pending, received, console, eof, chanExit, issued>>
       \/ \* the transport drops
          /\ Fatal("build", "ConnectionLost")
          /\ UNCHANGED <<pending, received, console, eof, chanExit, issued>>
    /\ UNCHANGED <<client, opened, closeCalls, retrieved, exit_code>>

\* lines 25-26: exit_code = stdout.channel.recv_exit_status();
\* print(f'\n[BUILD EXIT CODE: {exit_code}]')
BuildStatus ==
    /\ pc = "build_status"
    /\ exit_code' = chanExit["build"]
    /\ retrieved' = retrieved \cup {"build"}
    /\ console' = Append(console, NumLine("[BUILD EXIT CODE: N]",
                                          FormatInt(chanExit["build"][1])))
    /\ pc' = "gate"
    /\ UNCHANGED <<client, opened, closeCalls, issued, pending, received,
                   eof, chanExit, error, failedStep, procExit>>

\* lines 28-30: the if branch: print('\n=== STEP 2 ...');
\* client.exec_command('pm2 restart gst 2>&1', timeout=30)
RestartExec ==
    /\ pc = "gate"
    /\ GateOpen(exit_code[1])
    /\ ExecCommand("restart", ShortOutputs, "restart_read")
    /\ console' = Append(console, Line("=== STEP 2: pm2 restart gst ==="))
    /\ UNCHANGED <<client, opened, closeCalls, received, eof, chanExit,
                   retrieved, exit_code>>

\* lines 33-34: the else branch, print('[BUILD FAILED ... skipping restart]')
\* (the source prints an em dash where the model's text has a hyphen)
SkipRestartToClose ==
    /\ pc = "gate"
    /\ ~GateOpen(exit_code[1])
    /\ console' = Append(console, Line("[BUILD FAILED - skipping restart]"))
    /\ pc' = "close"
    /\ UNCHANGED <<client, opened, closeCalls, issued, pending, received,
                   eof, chanExit, retrieved, exit_code, error, failedStep,
                   procExit>>
SkipRestartAbort ==
    /\ pc = "gate"
    /\ ~GateOpen(exit_code[1])
    /\ console' = Append(console, Line("[BUILD FAILED - skipping restart]"))
    /\ pc' = "done"
    /\ procExit' = <<1>>
    /\ UNCHANGED <<client, opened, closeCalls, issued, pending, received,
                   eof, chanExit, retrieved, exit_code, error, failedStep>>
SkipRestart ==
    /\ pc = "gate"
    /\ ~GateOpen(exit_code[1])
    /\ console' = Append(console, Line("[BUILD FAILED - skipping restart]"))
    /\ pc' = "status_exec"
    /\ UNCHANGED <<client, opened, closeCalls, issued, pending, received,
                   eof, chanExit, retrieved, exit_code, error, failedStep,
                   procExit>>

\* out.read() of a short command c (lines 31 and 38): the call collects
\* chunks until the stream closes and only then returns; the script decodes
\* and prints the whole output after it returned.
ReadAll(c, next, statuses) ==
    \/ /\ pending # <<>>
       /\ \E n \in 1..Len(pending) :
             /\ received' = [received EXCEPT
                               ![c] = Append(@, SubSeq(pending, 1, n))]
             /\ pending' = SubSeq(pending, n + 1, Len(pending))
       /\ UNCHANGED <<pc, eof, chanExit, console, error, failedStep,
                      procExit, issued>>
    \/ /\ pending = <<>>
       /\ eof' = eof \cup {c}
       /\ \E v \in statuses : chanExit' = [chanExit EXCEPT ![c] = <<v>>]
       /\ console' = PrintOutput(console, c, Flatten(received[c]))
       /\ pc' = next
       /\ UNCHANGED <<pending, received, error, failedStep, procExit,
                      issued>>
    \/ /\ Fatal(c, "CommandTimeout")
       /\ UNCHANGED <<pending, received, console, eof, chanExit, issued>>
    \/ /\ Fatal(c, "ConnectionLost")
       /\ UNCHANGED <<pending, received, console, eof, chanExit, issued>>

\* line 31: print(out2.read().decode('utf-8', errors='replace'))
RestartReadNoStatus ==
    /\ pc = "restart_read"
    /\ ReadAll("restart", "status_exec", 0..MaxRestartStatus)
    /\ UNCHANGED <<client, opened, closeCalls, retrieved, exit_code>>
RestartRead ==
    /\ pc = "restart_read"
    /\ ReadAll("restart", "restart_status", 0..MaxRestartStatus)
    /\ UNCHANGED <<client, opened, closeCalls, retrieved, exit_code>>

\* line 32: print(f'[PM2 EXIT: {out2.channel.recv_exit_status()}]')
RestartStatus ==
    /\ pc = "restart_status"
    /\ retrieved' = retrieved \cup {"restart"}
    /\ console' = Append(console, NumLine("[PM2 EXIT: N]",
                                          FormatInt(chanExit["restart"][1])))
    /\ pc' = "status_exec"
    /\ UNCHANGED <<client, opened, closeCalls, issued, pending, received,
                   eof, chanExit, exit_code, error, failedStep, procExit>>

\* lines 36-37: print('\n=== STEP 3 ...');
\* client.exec_command('pm2 status 2>&1', timeout=15)
StatusExec ==
    /\ pc = "status_exec"
    /\ ExecCommand("status", ShortOutputs, "status_read")
    /\ console' = Append(console, Line("=== STEP 3: pm2 status ==="))
    /\ UNCHANGED <<client, opened, closeCalls, received, eof, chanExit,
                   retrieved, exit_code>>

\* line 38: print(out3.read().decode('utf-8', errors='replace')); the exit
\* status of this command is never read
StatusRead ==
    /\ pc = "status_read"
    /\ ReadAll("status", "close", {0})
    /\ UNCHANGED <<client, opened, closeCalls, retrieved, exit_code>>

\* line 40: client.close()
Close ==
    /\ pc = "close"
    /\ client' = "closed"
    /\ closeCalls' = closeCalls + 1
    /\ pc' = "print_done"
    /\ UNCHANGED <<opened, issued, pending, received, eof, chanExit,
                   retrieved, exit_code, console, error, failedStep,
                   procExit>>

\* line 41: print('Done.'), then the interpreter exits with status 0
Finish ==
    /\ pc = "print_done"
    /\ console' = Append(console, Line("Done."))
    /\ procExit' = <<0>>
    /\ pc' = "done"
    /\ UNCHANGED <<client, opened, closeCalls, issued, pending, received,
                   eof, chanExit, retrieved, exit_code, error, failedStep>>

Next ==
    \/ Connect
    \/ BuildExec
    \/ BuildRead
    \/ BuildStatus
    \/ RestartExec
    \/ SkipRestart
    \/ RestartRead
    \/ RestartStatus
    \/ StatusExec
    \/ StatusRead
    \/ Close
    \/ Finish

Spec == Init /\ [][Next]_vars

----------------------------------------------------------------------------
(* Vocabulary of the properties *)

Terminated == pc \in {"done", "failed"}

Count(seq, x) == Cardinality({i \in 1..Len(seq) : seq[i] = x})

Printed(t) == \E i \in 1..Len(console) :
                 console[i].kind = "line" /\ console[i].text = t

\* the decoded texts written to the console for command c, one per write
RECURSIVE DataWritesIn(_, _)
DataWritesIn(con, c) ==
    IF con = <<>> THEN <<>>
    ELSE IF Head(con).kind = "data" /\ Head(con).text = c
         THEN <<Head(con).cps>> \o DataWritesIn(Tail(con), c)
         ELSE DataWritesIn(Tail(con), c)

DataWrites(c) == DataWritesIn(console, c)

\* everything written to the console for command c, as one text
SinkText(c) == Flatten(DataWrites(c))

\* the decimal number a sequence of digit code points denotes
RECURSIVE ParseInt(_)
ParseInt(digits) ==
    IF digits = <<>> THEN 0
    ELSE ParseInt(SubSeq(digits, 1, Len(digits) - 1)) * 10
         + (digits[Len(digits)] - 48)

\* the numbers printed in lines of text t
PrintedNumbers(t) ==
    {ParseInt(console[i].cps) :
        i \in {j \in 1..Len(console) :
                  console[j].kind = "line" /\ console[j].text = t}}

----------------------------------------------------------------------------
(* C1: in every execution, also when connect() or a run() step fails with   *)
(* a fatal error, client.close() has been called exactly once when the      *)
(* program terminates.                                                      *)
C1_CloseExactlyOnce == Terminated => closeCalls = 1

(* C2: with build exit status 0 the restart command is issued exactly once  *)
(* over the whole execution; with a nonzero build exit status it is never   *)
(* issued.                                                                  *)
C2_RestartIffBuildZero ==
    /\ Count(issued, "restart") <= 1
    /\ chanExit["build"] # <<>> =>
         LET s == chanExit["build"][1]
         IN  /\ s \in 0..MaxStatus
             /\ s # 0 => Count(issued, "restart") = 0
             /\ (s = 0 /\ Terminated) => Count(issued, "restart") = 1

C2_Witness ==
    /\ pc = "done"
    /\ chanExit["build"] = <<0>>
    /\ Count(issued, "restart") = 1

(* C3 as stated: once the build has run to its exit status, the status      *)
(* query is issued exactly once whatever happens in the restart step,       *)
(* a restart that fails with a timeout or a lost connection included.       *)
C3_StatusAlwaysOnce ==
    (Terminated /\ "build" \in retrieved) => Count(issued, "status") = 1

(* C3 amended: the status query is never issued twice; it is issued exactly *)
(* once in every execution in which the build ran to its exit status and    *)
(* the restart step, if taken, did not fail fatally; when the build or the  *)
(* restart step fails fatally the status query is never issued.             *)
C3_StatusOnceUnlessFatal ==
    /\ Count(issued, "status") <= 1
    /\ (Terminated /\ "build" \in retrieved /\ failedStep # "restart")
          => Count(issued, "status") = 1
    /\ failedStep \in {"connect", "build", "restart"}
          => Count(issued, "status") = 0

C3_Witness ==
    /\ pc = "done"
    /\ exit_code # <<>> /\ exit_code[1] # 0
    /\ Count(issued, "restart") = 0
    /\ Count(issued, "status") = 1

(* C4: when a read of the build, restart or status output times out with    *)
(* zero bytes received, the program is terminated by that error: no step    *)
(* follows (no later command, no retry), every command was issued at most   *)
(* once, the failing command is the last one issued, 'Done.' is not printed *)
(* and the process exit status is not 0.                                    *)
C4_TimeoutIsFatal ==
    (error = "CommandTimeout" /\ received[failedStep] = <<>>) =>
        /\ pc = "failed"
        /\ ~ENABLED Next
        /\ \A c \in Commands : Count(issued, c) <= 1
        /\ issued # <<>> /\ issued[Len(issued)] = failedStep
        /\ ~Printed("Done.")
        /\ procExit = <<1>>

C4_Witness ==
    /\ pc = "failed"
    /\ error = "CommandTimeout"
    /\ failedStep = "restart"
    /\ received["restart"] = <<>>
    /\ issued = <<"build", "restart">>

(* C5: once the build output stream has closed, the text written to the     *)
(* console for the build (the per-chunk decodings, in order) equals the     *)
(* UTF-8 decoding with replacement of the whole byte stream, however the    *)
(* stream was cut into chunks.                                              *)
C5_ChunkedDecodeEqualsWhole ==
    "build" \in eof =>
        SinkText("build") = Utf8Decode(Flatten(received["build"]))

(* C6 as stated: commands are issued in the order build, restart, status,   *)
(* each at most once and only after the previous command's stream closed    *)
(* and its exit status was read; with build exit status 0 the commands      *)
(* issued in the execution are exactly [build, restart, status].            *)
IssueOrder ==
    /\ \E n \in 0..3 :
          \/ issued = SubSeq(<<"build", "restart", "status">>, 1, n)
          \/ issued = SubSeq(<<"build", "status">>, 1, Min(n, 2))
    /\ \A i \in 2..Len(issued) :
          issued[i - 1] \in eof /\ issued[i - 1] \in retrieved

C6_OrderedAndComplete ==
    /\ IssueOrder
    /\ (Terminated /\ exit_code = <<0>>)
          => issued = <<"build", "restart", "status">>

(* C6 amended: the order, at-most-once and wait-for-the-previous-command    *)
(* parts hold as stated; with build exit status 0 the commands issued are   *)
(* exactly [build, restart, status] when the restart step did not fail      *)
(* fatally, and exactly [build, restart] when it did.                       *)
C6_OrderedPipeline ==
    /\ IssueOrder
    /\ (Terminated /\ exit_code = <<0>> /\ failedStep # "restart")
          => issued = <<"build", "restart", "status">>
    /\ (exit_code = <<0>> /\ failedStep = "restart")
          => issued = <<"build", "restart">>

C6_Witness ==
    /\ pc = "done"
    /\ exit_code = <<0>>
    /\ issued = <<"build", "restart", "status">>
    /\ retrieved = {"build", "restart"}

(* C7: for every status v in 0..255 the remote channel reports for the      *)
(* build, the exit status the script captures equals v, the number printed  *)
(* in '[BUILD EXIT CODE: N]' reads back as v, and the status is read only   *)
(* after the build output stream has closed.                                *)
C7_ExitStatusRoundTrip ==
    /\ "build" \in retrieved => "build" \in eof
    /\ exit_code # <<>> =>
          /\ "build" \in retrieved
          /\ exit_code[1] \in 0..MaxStatus
          /\ exit_code = chanExit["build"]
          /\ PrintedNumbers("[BUILD EXIT CODE: N]") = {chanExit["build"][1]}

C7_Witness ==
    /\ exit_code = <<MaxStatus>>
    /\ chanExit["build"] = <<MaxStatus>>
    /\ Len(received["build"]) >= 1

(* C8: a nonzero build exit status is not a program error: the script       *)
(* prints '[BUILD FAILED - skipping restart]', skips the restart, and       *)
(* unless a fatal transport error occurs goes on through the status query   *)
(* to 'Done.' and process exit status 0, the same outcome as with build     *)
(* exit status 0.                                                           *)
C8_BuildFailureNotFatal ==
    /\ (exit_code # <<>> /\ exit_code[1] # 0 /\ pc # "gate") =>
          /\ Printed("[BUILD FAILED - skipping restart]")
          /\ Count(issued, "restart") = 0
          /\ error = "" =>
                pc \in {"status_exec", "status_read", "close",
                        "print_done", "done"}
    /\ pc = "done" =>
          /\ procExit = <<0>>
          /\ Printed("Done.")
          /\ Count(issued, "status") = 1
          /\ error = ""
    /\ (error = "" /\ pc # "done") => ENABLED Next

C8_Witness ==
    /\ pc = "done"
    /\ exit_code = <<1>>
    /\ Printed("[BUILD FAILED - skipping restart]")
    /\ procExit = <<0>>

(* C9 as stated: for each of the three commands, when k >= 1 chunks were    *)
(* delivered and the command then fails with a timeout, the k chunks have   *)
(* been written (decoded) to the console at the moment of the failure.      *)
DecodedChunks(c) ==
    [i \in 1..Len(received[c]) |-> Utf8Decode(received[c][i])]

C10_CommandsOnlyWhileOpen ==
    /\ opened <= 1
    /\ issued # <<>> => opened = 1
    /\ error = "ConnectionError" => (issued = <<>> /\ opened = 0 /\ Terminated)
    /\ pc \in {"build_exec", "build_read", "build_status", "gate",
               "restart_read", "restart_status", "status_exec",
               "status_read", "close"} => client = "open"
    /\ client = "closed" => pc \in {"print_done", "done"}
    /\ client = "new" => issued = <<>>

C10_Witness ==
    /\ pc = "done"
    /\ client = "closed"
    /\ opened = 1
    /\ Len(issued) = 3

====
